---- MODULE Spec2Model ----
(***************************************************************************)
(* Voice interaction pipeline of hire-actions: the FloatingMic recording   *)
(* component (frontend/components/voice/FloatingMic.tsx, stored in         *)
(* src/frontend/components/Navigation.tsx from line 53) and the            *)
(* dispatcher/store of VoiceAssistantProvider.tsx.                         *)
(*                                                                         *)
(* Every start request that passes toggleRecording is one "attempt" with   *)
(* an id in Sessions.  Per attempt the model keeps what the closure of     *)
(* startRecording keeps (the stream, the recorder, the runVoiceCommand it  *)
(* closed over); the React refs and state of the component are the shared  *)
(* variables.  Each action is one callback body run to its next await.     *)
(*                                                                         *)
(* Time.  The code reads performance.now() in two places: into             *)
(* lastSpeechRef (lines 183 and 201) and in the difference                 *)
(* now - lastSpeechRef.current (line 202).  Only the difference is ever    *)
(* compared, and only while hasDetectedSpeechRef is true, so the model     *)
(* keeps the difference, silenceMs, while the flag is true (0 otherwise;   *)
(* the flag becomes true only together with lastSpeechRef.current = now)   *)
(* and lets it grow by one sample interval between two rounds of interval  *)
(* callbacks.                                                              *)
(***************************************************************************)
EXTENDS Integers, Sequences, FiniteSets, TLC

\* ---------------------------------------------------------------- bounds
MaxSessions == 2      \* start requests explored
BufLen == 2           \* samples per analyser buffer (fftSize in the model)
MaxCalls == 11        \* answers in the long run of plain answers
MaxShaped == 2        \* answers in the runs that mix navigations
MaxInFlight == 2      \* runVoiceCommand calls in flight at once
MaxEdits == 1         \* filter changes made on the dashboard

\* ------------------------------------------------------ program constants
SPEECH_THRESHOLD == 10          \* 0.01, in thousandths of full scale
SILENCE_DURATION_MS == 1200
VAD_SAMPLE_INTERVAL_MS == 200
HistoryCap == 6                 \* newHistory.slice(-6)
LogCap == 10                    \* [response, ...prev].slice(0, 10)

Sessions == 1..MaxSessions
NoSession == 0
\* sample amplitudes in thousandths of full scale: at the threshold and
\* above it (a buffer of samples at the threshold is not speech)
SampleLevels == {10, 20}
Buffers == [1..BufLen -> SampleLevels]
SilentBuffer == [i \in 1..BufLen |-> 0]

VARIABLES
  capable,               \* navigator.mediaDevices?.getUserMedia exists
  nextId,                \* number of start attempts made so far
  \* ---- FloatingMic: React state and refs
  mediaState, message,
  mediaRecorderRef, chunksRef, cleanupStreamRef,
  audioContextRef, analyserRef, vadIntervalRef,
  silenceMs,             \* performance.now() - lastSpeechRef.current
  hasDetectedSpeechRef,
  \* ---- per start attempt: what the closure of startRecording holds
  pc,                    \* position of the attempt
  streamLive,            \* stream granted and its tracks not stopped
  ctxOpen,               \* AudioContext created and not closed
  timerLive,             \* setInterval created and not cleared
  due,                   \* the attempt's interval is due to fire now
  hist,                  \* conversationHistory closed over by runVoiceCommand
  blob,                  \* the Blob built in recorder.onstop
  \* ---- VoiceAssistantProvider
  conversationHistory, pendingCount,
  \* ---- observation (history variables, never read by the program)
  lastOp,                \* the callback that ran last, the attempt it ran
                         \* for and the playAudioFeedback calls it made
  sinceHeard,            \* ms since the last above-threshold sample taken
                         \* for the recorder now referenced; -1 if none was
  stoppedBy,             \* what stopped the recorder now referenced, while
                         \* its stop event is queued: "manual" or "vad"
  sent,                  \* per request in flight: the history it carries and
                         \* the history of the store when it was submitted
  \* ---- VoiceAssistantProvider: the rest of the store
  lastResponse, responseLog, pipelineFilters, pipelineFiltersVersion,
  \* ---- the commands given to the provider on its own
  script,                \* the answers of the endpoint, in order of arrival
  received,              \* answers that have arrived so far
  flying,                \* runVoiceCommand calls whose request has not settled
  edits,                 \* filter changes made on the dashboard so far
  \* ---- VoiceConsole: React state, and the requests it has in flight
  transcript, audioBase64, error, pendingRequests, wire,
  \* ---- the encoder on its own: the bytes of a recording or of a file, the
  \* string made of them and the function that made it
  bytes, encoded, encodedBy

micVars == <<mediaState, message, mediaRecorderRef, chunksRef, cleanupStreamRef,
             audioContextRef, analyserRef, vadIntervalRef, silenceMs,
             hasDetectedSpeechRef>>
sessVars == <<pc, streamLive, ctxOpen, timerLive, due, hist, blob>>
storeVars == <<conversationHistory, pendingCount>>
obsVars == <<sinceHeard, stoppedBy, sent>>
progVars == <<capable, nextId, micVars, sessVars, storeVars>>
viewVars == <<lastResponse, responseLog, pipelineFilters, pipelineFiltersVersion>>
envVars == <<script, received, flying, edits>>
consoleVars == <<transcript, audioBase64, error, pendingRequests, wire>>
codecVars == <<bytes, encoded, encodedBy>>
vars == <<progVars, obsVars, lastOp, viewVars, envVars, consoleVars, codecVars>>

Op(name, s, played) == [op |-> name, s |-> s, cues |-> played, age |-> -1]
\* a VAD callback: age is sinceHeard when the sample was taken
VadOp(name, s, age) == [op |-> name, s |-> s, cues |-> <<>>, age |-> age]

\* ------------------------------------------------------------- helpers
\* MediaRecorder.state of the recorder of an attempt at position p
RecorderState(p) ==
  CASE p = "recording" -> "recording"
    [] p \in {"stopQueued", "encoding", "dispatching", "done"} -> "inactive"
    [] OTHER -> "none"

RECURSIVE SumSquares(_, _)
SumSquares(buffer, i) ==
  IF i > Len(buffer) THEN 0
  ELSE buffer[i] * buffer[i] + SumSquares(buffer, i + 1)

\* rms > SPEECH_THRESHOLD with rms = sqrt(sumSquares / buffer.length),
\* compared without the square root: sumSquares > threshold^2 * length
RmsExceeds(buffer) ==
  SumSquares(buffer, 1) > SPEECH_THRESHOLD * SPEECH_THRESHOLD * Len(buffer)

\* variant: the timeout compared with >= instead of >
SilenceTimeoutAtLeast(hasDetected, elapsed) ==
  hasDetected /\ elapsed >= SILENCE_DURATION_MS

\* the else-if of the VAD callback
SilenceTimeout(hasDetected, elapsed) ==
  hasDetected /\ elapsed > SILENCE_DURATION_MS

\* variant: the history is not cut
SliceLastKeepAll(seq, n) == seq

\* variant: the cut keeps one turn fewer than the cap
SliceLastShort(seq, n) ==
  IF Len(seq) < n THEN seq ELSE SubSeq(seq, Len(seq) - n + 2, Len(seq))

\* newHistory.slice(-6)
SliceLast(seq, n) ==
  IF Len(seq) <= n THEN seq ELSE SubSeq(seq, Len(seq) - n + 1, Len(seq))

Turn(role, s) == [role |-> role, id |-> s]


\* ------------------------------------------- JSON values of a response
\* A response is JSON of unknown shape (execution_result is a
\* Record<string, unknown>): a value is a record with its JavaScript type
\* and, by type, its text, its items or its fields.
Undefined == [type |-> "undefined", val |-> "undefined"]
Null == [type |-> "null", val |-> "null"]
Str(s) == [type |-> "string", val |-> s]
Num(s) == [type |-> "number", val |-> s]        \* s: the decimal text
Bool(s) == [type |-> "boolean", val |-> s]      \* s: "true" or "false"
Arr(items) == [type |-> "array", items |-> items]
Obj(fields) == [type |-> "object", fields |-> fields]

\* JavaScript truthiness
Truthy(v) ==
  CASE v.type \in {"undefined", "null"} -> FALSE
    [] v.type = "string" -> v.val # ""
    [] v.type = "number" -> v.val # "0"
    [] v.type = "boolean" -> v.val = "true"
    [] OTHER -> TRUE

\* v?.f
Get(v, f) ==
  IF v.type = "object" /\ f \in DOMAIN v.fields THEN v.fields[f] ELSE Undefined

IsArray(v) == v.type = "array"
IsString(v) == v.type = "string"

\* the text a template literal gives for a value
Text(v) ==
  CASE v.type = "object" -> "[object Object]"
    [] v.type = "array" -> "[array]"
    [] OTHER -> v.val

\* a || fallback, inside a template literal
TextOr(v, fallback) == IF Truthy(v) THEN Text(v) ELSE fallback

\* the decimal text of a length
NumText(n) ==
  CASE n = 0 -> "0" [] n = 1 -> "1" [] n = 2 -> "2" [] n = 3 -> "3"
    [] n = 4 -> "4" [] n = 5 -> "5" [] OTHER -> "many"

\* variant: the log is not cut
SliceFirstKeepAll(seq, n) == seq

\* array.slice(0, n)
SliceFirst(seq, n) == IF Len(seq) <= n THEN seq ELSE SubSeq(seq, 1, n)

\* one piece appended to assistantContent: the literal text and the values
\* interpolated into it
Frag(text, args) == <<text>> \o args
When(cond, frags) == IF cond THEN frags ELSE <<>>


\* ------------------------- handleVoiceResponse: the assistant's summary
\* response.intent_json?.action, ?.params and response.execution_result
ActionOf(response) == Get(response.intent_json, "action")
ParamsOf(response) == Get(response.intent_json, "params")
ExecutionOf(response) == response.execution_result

CreateJobPart(action, ex) ==
  When(action = Str("create_job") /\ Truthy(Get(ex, "short_id")),
       <<Frag(". Created job",
              <<Text(Get(ex, "title")), Text(Get(ex, "short_id"))>>)>>
       \o When(IsArray(Get(ex, "required_skills")),
               LET skills == SliceFirst(Get(ex, "required_skills").items, 5)
               IN  <<Frag(". Skills: ",
                          [i \in 1..Len(skills) |-> Text(skills[i])])>>))

\* `${i + 1}. ${c.name} (ID: ${c.candidate_id || 'unknown'}, score: ...)`
RECURSIVE TopResults(_, _)
TopResults(items, i) ==
  IF i > Len(items) THEN <<>>
  ELSE <<Text(Get(items[i], "name")),
         TextOr(Get(items[i], "candidate_id"), "unknown"),
         TextOr(Get(items[i], "similarity"), "0")>>
       \o TopResults(items, i + 1)

\* c.name of a null item and (c.similarity || 0).toFixed of a truthy value
\* that is not a number raise a TypeError
CandidateThrows(c) ==
  \/ c.type \in {"null", "undefined"}
  \/ Truthy(Get(c, "similarity")) /\ Get(c, "similarity").type # "number"

SearchThrows(action, ex) ==
  /\ action = Str("search_candidates")
  /\ IsArray(Get(ex, "candidates"))
  /\ LET top == SliceFirst(Get(ex, "candidates").items, 5)
     IN  \E i \in 1..Len(top) : CandidateThrows(top[i])

SearchPart(action, ex, params) ==
  When(action = Str("search_candidates") /\ IsArray(Get(ex, "candidates")),
       LET candidates == Get(ex, "candidates").items
       IN  When(Len(candidates) > 0,
                <<Frag(". Found",
                       <<NumText(Len(candidates))>>
                       \o TopResults(SliceFirst(candidates, 5), 1))>>)
           \o When(Truthy(Get(params, "job_id")),
                   <<Frag(". Searched against job ID #",
                          <<Text(Get(params, "job_id"))>>)>>))

ScorePart(action, ex) ==
  When(action = Str("score_candidate") /\ Truthy(Get(ex, "overall_score")),
       <<Frag(". Scored",
              <<TextOr(Get(Get(ex, "candidate"), "name"), "candidate"),
                Text(Get(ex, "overall_score"))>>)>>
       \o When(Truthy(Get(Get(ex, "job"), "title")),
               <<Frag(" for", <<Text(Get(Get(ex, "job"), "title")),
                                Text(Get(Get(ex, "job"), "short_id"))>>)>>))

QuestionsPart(action, ex) ==
  When(action = Str("generate_screening_questions")
         /\ IsArray(Get(ex, "questions")),
       <<Frag(". Generated", <<NumText(Len(Get(ex, "questions").items))>>)>>
       \o When(Truthy(Get(Get(ex, "candidate"), "name")),
               <<Frag(" for", <<Text(Get(Get(ex, "candidate"), "name"))>>)>>)
       \o When(Truthy(Get(Get(ex, "job"), "title")),
               <<Frag(" (", <<Text(Get(Get(ex, "job"), "title")),
                              Text(Get(Get(ex, "job"), "short_id"))>>)>>))

EmailPart(action, ex) ==
  When(action = Str("email_candidate"),
       <<Frag(IF Truthy(Get(ex, "sent"))
                THEN ". Email sent to" ELSE ". Draft email prepared for",
              <<Text(Get(ex, "to"))>>)>>
       \o When(Truthy(Get(ex, "auto_moved_to")),
               <<Frag(". Candidate moved to",
                      <<Text(Get(ex, "auto_moved_to"))>>)>>))

MovePart(action, ex) ==
  When(action = Str("move_candidate"),
       <<Frag(". Moved", <<TextOr(Get(ex, "candidate_name"), "candidate"),
                           TextOr(Get(ex, "from_stage"), "unknown"),
                           TextOr(Get(ex, "to_stage"), "unknown")>>)>>)

SummaryPart(ex) ==
  When(Truthy(Get(ex, "summary")),
       <<Frag(". ", <<Text(Get(ex, "summary"))>>)>>)
  \o When(Truthy(Get(ex, "explanation")),
          <<Frag(" ", <<Text(Get(ex, "explanation"))>>)>>)

\* chainedActions && chainedActions.length > 0
HasChained(ex) ==
  LET chained == Get(ex, "chained_actions")
  IN  /\ Truthy(chained)
      /\ \/ IsArray(chained) /\ Len(chained.items) > 0
         \/ IsString(chained)        \* a non-empty string has a length > 0

\* forEach of a string is not a function; chained.action of a null item
\* raises a TypeError
ChainedThrows(ex) ==
  /\ HasChained(ex)
  /\ LET chained == Get(ex, "chained_actions")
     IN  \/ ~IsArray(chained)
         \/ \E i \in 1..Len(chained.items) :
              chained.items[i].type \in {"null", "undefined"}

ChainedItem(item) ==
  LET result == Get(item, "result")
  IN  IF Get(item, "action") = Str("generate_screening_questions")
           /\ Truthy(Get(result, "questions"))
        THEN <<Frag("Generated",
                    <<IF IsArray(Get(result, "questions"))
                        THEN NumText(Len(Get(result, "questions").items))
                        ELSE "undefined">>)>>
      ELSE IF Get(item, "action") = Str("move_candidate")
                /\ Truthy(Get(result, "to_stage"))
        THEN <<Frag("Moved to", <<Text(Get(result, "to_stage"))>>)>>
      ELSE IF Get(item, "action") = Str("score_candidate")
                /\ Truthy(Get(result, "overall_score"))
        THEN <<Frag("Scored", <<Text(Get(result, "overall_score"))>>)>>
      ELSE <<>>

RECURSIVE ChainedItems(_, _)
ChainedItems(items, idx) ==
  IF idx > Len(items) THEN <<>>
  ELSE ChainedItem(items[idx])
       \o When(idx < Len(items), <<Frag("; ", <<>>)>>)
       \o ChainedItems(items, idx + 1)

ChainedPart(ex) ==
  When(HasChained(ex) /\ ~ChainedThrows(ex),
       <<Frag(". Chained actions: ", <<>>)>>
       \o ChainedItems(Get(ex, "chained_actions").items, 1))

\* lines 79-171 raise an exception before the history is touched
SummaryThrows(response) ==
  \/ SearchThrows(ActionOf(response), ExecutionOf(response))
  \/ ChainedThrows(ExecutionOf(response))

\* assistantContent as built by lines 83-171
AssistantContent(response) ==
  LET action == ActionOf(response)
      ex == ExecutionOf(response)
  IN  <<Frag("Action: ", <<Text(action)>>)>>
      \o CreateJobPart(action, ex)
      \o SearchPart(action, ex, ParamsOf(response))
      \o ScorePart(action, ex)
      \o QuestionsPart(action, ex)
      \o EmailPart(action, ex)
      \o MovePart(action, ex)
      \o SummaryPart(ex)
      \o ChainedPart(ex)

\* ------------------------------------ filters and route of a navigation
NoFilters == [pipeline_stage |-> Null, priority |-> Null]

normalizePipelineFilters(filters) ==
  IF ~Truthy(filters) \/ filters.type \notin {"object", "array"}
    THEN NoFilters
    ELSE [pipeline_stage |-> IF IsString(Get(filters, "pipeline_stage"))
                               THEN Get(filters, "pipeline_stage") ELSE Null,
          priority |-> IF IsString(Get(filters, "priority"))
                         THEN Get(filters, "priority") ELSE Null]

\* variant: every view goes to the pipeline
mapViewToRoutePipeline(view) == "/pipeline"

mapViewToRoute(view) ==
  CASE view = "jobs" -> "/jobs"
    [] view = "candidates" -> "/candidates"
    [] OTHER -> "/pipeline"

\* typeof execution?.view === 'string' ? execution.view : 'pipeline'
ViewOf(ex) == IF IsString(Get(ex, "view")) THEN Get(ex, "view").val ELSE "pipeline"



\* ------------------------------------------- texts typed or encoded
\* a string of the console is the sequence of its characters; a value that
\* may be null or undefined says whether it is there
Absent == [has |-> FALSE, text |-> <<>>]
Given(text) == [has |-> TRUE, text |-> text]

\* JavaScript truthiness of a string that may be null or undefined
Filled(v) == v.has /\ Len(v.text) > 0

\* ------------------------------------------------------------------ Init
\* the components after construction, no command given yet
Idle ==
  /\ nextId = 0
  /\ mediaState = "idle"
  /\ message = "null"
  /\ mediaRecorderRef = NoSession
  /\ chunksRef = <<>>
  /\ cleanupStreamRef = NoSession
  /\ audioContextRef = NoSession
  /\ analyserRef = NoSession
  /\ vadIntervalRef = NoSession
  /\ silenceMs = 0
  /\ hasDetectedSpeechRef = FALSE
  /\ pc = [s \in Sessions |-> "unused"]
  /\ streamLive = [s \in Sessions |-> FALSE]
  /\ ctxOpen = [s \in Sessions |-> FALSE]
  /\ timerLive = [s \in Sessions |-> FALSE]
  /\ due = [s \in Sessions |-> FALSE]
  /\ hist = [s \in Sessions |-> <<>>]
  /\ blob = [s \in Sessions |-> <<>>]
  /\ conversationHistory = <<>>
  /\ pendingCount = 0
  /\ lastOp = Op("init", NoSession, <<>>)
  /\ sinceHeard = -1
  /\ stoppedBy = "none"
  /\ sent = [s \in Sessions |-> <<>>]
  /\ lastResponse = Null
  /\ responseLog = <<>>
  /\ pipelineFilters = NoFilters
  /\ pipelineFiltersVersion = 0
  /\ received = 0
  /\ flying = 0
  /\ edits = 0
  /\ transcript = <<>>
  /\ audioBase64 = Absent
  /\ error = "null"
  /\ pendingRequests = 0
  /\ wire = <<>>
  /\ encoded = <<>>
  /\ encodedBy = "none"

Init ==
  /\ capable \in BOOLEAN
  /\ Idle
  /\ script = <<>>
  /\ bytes = <<>>

\* ------------------------------------------------------- stopRecording
\* the guard of stopRecording: a recorder is referenced and not inactive
CanStop(ref, positions) ==
  ref # NoSession /\ RecorderState(positions[ref]) # "inactive"
                  /\ RecorderState(positions[ref]) # "none"

\* stopRecording: recorder.stop() makes the recorder inactive at once and
\* queues its stop event; the speech flag is cleared in any case
stopRecording(by) ==
  /\ stoppedBy' = IF CanStop(mediaRecorderRef, pc) THEN by ELSE stoppedBy
  /\ pc' = IF CanStop(mediaRecorderRef, pc)
             THEN [pc EXCEPT ![mediaRecorderRef] = "stopQueued"]
             ELSE pc
  /\ hasDetectedSpeechRef' = FALSE
  /\ silenceMs' = 0
  /\ sinceHeard' = IF CanStop(mediaRecorderRef, pc) THEN -1 ELSE sinceHeard

\* ------------------------------------------------------ startRecording
\* startRecording up to its first await (the capability check and the
\* getUserMedia request); the attempt closes over the runVoiceCommand of
\* the current render, hence over the current conversationHistory
startRecording(s) ==
  /\ nextId' = s
  /\ IF ~capable
       THEN /\ message' = "Microphone not supported in this browser."
            /\ mediaState' = "error"
            /\ lastOp' = Op("unsupported", s, <<"error">>)
            /\ pc' = [pc EXCEPT ![s] = "unsupported"]
            /\ UNCHANGED hist
       ELSE /\ pc' = [pc EXCEPT ![s] = "awaitMic"]
            /\ hist' = [hist EXCEPT ![s] = conversationHistory]
            /\ lastOp' = Op("toggleStart", s, <<>>)
            /\ UNCHANGED <<message, mediaState>>

\* ------------------------------------------------------ toggleRecording
\* variant: no early return while processing
ToggleBranchReentrant(state) ==
  CASE state = "recording" -> "stop"
    [] OTHER -> "start"

ToggleBranch(state) ==
  CASE state = "processing" -> "noop"
    [] state = "recording" -> "stop"
    [] OTHER -> "start"

toggleRecording ==
  \/ /\ ToggleBranch(mediaState) = "noop"
     /\ lastOp' = Op("toggleNoop", NoSession, <<>>)
     /\ UNCHANGED <<progVars, obsVars>>
     /\ UNCHANGED <<viewVars, envVars, consoleVars, codecVars>>
  \/ /\ ToggleBranch(mediaState) = "stop"
     /\ stopRecording("manual")
     /\ lastOp' = Op(IF CanStop(mediaRecorderRef, pc)
                        THEN "toggleStop" ELSE "toggleStopLate",
                      mediaRecorderRef, <<>>)
     /\ UNCHANGED <<capable, nextId, storeVars>>
     /\ UNCHANGED <<mediaState, message, mediaRecorderRef, chunksRef,
                    cleanupStreamRef, audioContextRef, analyserRef,
                    vadIntervalRef>>
     /\ UNCHANGED <<streamLive, ctxOpen, timerLive, due, hist, blob>>
     /\ UNCHANGED sent
     /\ UNCHANGED <<viewVars, envVars, consoleVars, codecVars>>
  \/ /\ ToggleBranch(mediaState) = "start"
     /\ nextId < MaxSessions
     /\ startRecording(nextId + 1)
     /\ UNCHANGED <<capable, storeVars>>
     /\ UNCHANGED <<mediaRecorderRef, chunksRef, cleanupStreamRef,
                    audioContextRef, analyserRef, vadIntervalRef,
                    silenceMs, hasDetectedSpeechRef>>
     /\ UNCHANGED <<streamLive, ctxOpen, timerLive, due, blob>>
     /\ UNCHANGED <<sinceHeard, stoppedBy, sent>>
     /\ UNCHANGED <<viewVars, envVars, consoleVars, codecVars>>

\* --------------------------------------- getUserMedia resolves / rejects
\* variant: the catch block resets to idle
CatchStateIdle == "idle"

\* the state the catch block of startRecording sets
CatchState == "error"

StartOutcomes == {"ok", "recorderThrows", "audioContextThrows"}

\* getUserMedia resolved: the rest of the try block, run to its end or to
\* the statement that throws (new MediaRecorder, or new AudioContext)
MicGranted(s, outcome) ==
  /\ pc[s] = "awaitMic"
  /\ streamLive' = [streamLive EXCEPT ![s] = TRUE]
  /\ chunksRef' = <<>>
  /\ CASE outcome = "recorderThrows" ->
            /\ pc' = [pc EXCEPT ![s] = "startFailed"]
            /\ UNCHANGED <<sinceHeard, stoppedBy>>
            /\ lastOp' = Op("startFailed", s, <<"startRecording", "error">>)
            /\ mediaState' = CatchState
            /\ message' = "Microphone access was denied."
            /\ UNCHANGED <<mediaRecorderRef, cleanupStreamRef, audioContextRef,
                           analyserRef, vadIntervalRef, silenceMs,
                           hasDetectedSpeechRef, ctxOpen, timerLive, due>>
       [] outcome = "audioContextThrows" ->
            /\ pc' = [pc EXCEPT ![s] = "recording"]
            /\ mediaRecorderRef' = s
            /\ sinceHeard' = -1
            /\ stoppedBy' = "none"
            /\ lastOp' = Op("startFailed", s, <<"startRecording", "error">>)
            /\ mediaState' = CatchState
            /\ message' = "Microphone access was denied."
            /\ UNCHANGED <<cleanupStreamRef, audioContextRef,
                           analyserRef, vadIntervalRef, silenceMs,
                           hasDetectedSpeechRef, ctxOpen, timerLive, due>>
       [] outcome = "ok" ->
            /\ pc' = [pc EXCEPT ![s] = "recording"]
            /\ mediaRecorderRef' = s
            /\ lastOp' = Op("micGranted", s, <<"startRecording">>)
            /\ ctxOpen' = [ctxOpen EXCEPT ![s] = TRUE]
            /\ audioContextRef' = s
            /\ analyserRef' = s
            /\ hasDetectedSpeechRef' = FALSE
            /\ silenceMs' = 0      \* lastSpeechRef.current = performance.now()
            /\ sinceHeard' = -1
            /\ stoppedBy' = "none"
            /\ timerLive' = [timerLive EXCEPT ![s] = TRUE]
            /\ due' = [due EXCEPT ![s] = FALSE]
            /\ vadIntervalRef' = s
            /\ cleanupStreamRef' = s
            /\ mediaState' = "recording"
            /\ message' = "null"
  /\ UNCHANGED <<capable, nextId, hist, blob, storeVars>>
  /\ UNCHANGED sent
  /\ UNCHANGED <<viewVars, envVars, consoleVars, codecVars>>

\* getUserMedia rejected: the catch block of startRecording
MicDenied(s) ==
  /\ pc[s] = "awaitMic"
  /\ pc' = [pc EXCEPT ![s] = "denied"]
  /\ mediaState' = CatchState
  /\ message' = "Microphone access was denied."
  /\ lastOp' = Op("micDenied", s, <<"error">>)
  /\ UNCHANGED <<capable, nextId, storeVars>>
  /\ UNCHANGED <<mediaRecorderRef, chunksRef, cleanupStreamRef, audioContextRef,
                 analyserRef, vadIntervalRef, silenceMs, hasDetectedSpeechRef>>
  /\ UNCHANGED <<streamLive, ctxOpen, timerLive, due, hist, blob>>
  /\ UNCHANGED <<sinceHeard, stoppedBy, sent>>
  /\ UNCHANGED <<viewVars, envVars, consoleVars, codecVars>>


\* variant: the callback does not look at the state of the recorder
MonitoringAnyRecorder ==
  /\ analyserRef # NoSession
  /\ mediaRecorderRef # NoSession

\* the guard of the VAD callback: it returns at once unless an analyser is
\* referenced and the referenced recorder is recording
Monitoring ==
  /\ analyserRef # NoSession
  /\ mediaRecorderRef # NoSession
  /\ RecorderState(pc[mediaRecorderRef]) = "recording"

\* ------------------------------------------------------ the VAD interval
\* one firing of the interval created by attempt s.  The callback reads the
\* shared refs, not the recorder and analyser of the attempt that created it
VadTick(s) ==
  /\ timerLive[s]
  /\ due[s]
  /\ due' = [due EXCEPT ![s] = FALSE]
  /\ IF ~Monitoring
       THEN /\ lastOp' = VadOp("vadSkip", mediaRecorderRef, -1)
            /\ UNCHANGED <<pc, hasDetectedSpeechRef, silenceMs, sinceHeard,
                           stoppedBy>>
       ELSE \E buffer \in (IF streamLive[analyserRef] THEN Buffers ELSE {SilentBuffer}) :
              IF RmsExceeds(buffer)
                THEN /\ hasDetectedSpeechRef' = TRUE
                     /\ silenceMs' = 0     \* lastSpeechRef.current = now
                     /\ sinceHeard' = 0
                     /\ lastOp' = VadOp("vadSpeech", mediaRecorderRef, 0)
                     /\ UNCHANGED <<pc, stoppedBy>>
                ELSE IF SilenceTimeout(hasDetectedSpeechRef, silenceMs)
                  THEN /\ stopRecording("vad")
                       /\ lastOp' = VadOp("vadStop", mediaRecorderRef, sinceHeard)
                  ELSE /\ lastOp' = VadOp("vadQuiet", mediaRecorderRef, sinceHeard)
                       /\ UNCHANGED <<pc, hasDetectedSpeechRef, silenceMs,
                                      sinceHeard, stoppedBy>>
  /\ UNCHANGED <<capable, nextId, storeVars>>
  /\ UNCHANGED <<mediaState, message, mediaRecorderRef, chunksRef, cleanupStreamRef,
                 audioContextRef, analyserRef, vadIntervalRef>>
  /\ UNCHANGED <<streamLive, ctxOpen, timerLive, hist, blob>>
  /\ UNCHANGED sent
  /\ UNCHANGED <<viewVars, envVars, consoleVars, codecVars>>

\* One sample interval passes and every live interval becomes due; the
\* intervals fire on time, so no further interval passes before they did.
\* Time is advanced only while a callback can take a sample: otherwise every
\* callback returns at once and nothing reads the clock.  The difference
\* silenceMs is advanced only while hasDetectedSpeechRef holds: it is
\* compared only then, and set to 0 whenever the flag becomes true
AdvanceTime ==
  /\ \E s \in Sessions : timerLive[s]
  /\ \A s \in Sessions : timerLive[s] => ~due[s]
  /\ Monitoring
  /\ due' = [s \in Sessions |-> timerLive[s]]
  /\ silenceMs' = IF hasDetectedSpeechRef
                    THEN silenceMs + VAD_SAMPLE_INTERVAL_MS
                    ELSE silenceMs
  /\ sinceHeard' = IF sinceHeard >= 0
                     THEN sinceHeard + VAD_SAMPLE_INTERVAL_MS
                     ELSE sinceHeard
  /\ lastOp' = Op("advance", NoSession, <<>>)
  /\ UNCHANGED <<capable, nextId, storeVars, stoppedBy, sent>>
  /\ UNCHANGED <<mediaState, message, mediaRecorderRef, chunksRef, cleanupStreamRef,
                 audioContextRef, analyserRef, vadIntervalRef, hasDetectedSpeechRef>>
  /\ UNCHANGED <<pc, streamLive, ctxOpen, timerLive, hist, blob>>
  /\ UNCHANGED <<viewVars, envVars, consoleVars, codecVars>>

\* ------------------------------------------------------ recorder.onstop
\* variant: the finally block does not reset the state
FinallyStateStuck == "processing"

\* the state the finally block of recorder.onstop sets
FinallyState == "idle"

\* the finally block of recorder.onstop of attempt s

OnstopFinally(s) ==
  /\ streamLive' = [streamLive EXCEPT ![s] = FALSE]
  /\ cleanupStreamRef' = NoSession
  /\ timerLive' = IF vadIntervalRef # NoSession
                    THEN [timerLive EXCEPT ![vadIntervalRef] = FALSE]
                    ELSE timerLive
  /\ due' = IF vadIntervalRef # NoSession
              THEN [due EXCEPT ![vadIntervalRef] = FALSE]
              ELSE due
  /\ vadIntervalRef' = NoSession
  /\ ctxOpen' = IF audioContextRef # NoSession
                  THEN [ctxOpen EXCEPT ![audioContextRef] = FALSE]
                  ELSE ctxOpen
  /\ audioContextRef' = NoSession
  /\ analyserRef' = NoSession
  /\ mediaState' = FinallyState

\* the stop event of the recorder of attempt s: dataavailable (which pushes
\* the data when its size is positive), then onstop up to await blobToBase64
OnStop(s, hasData) ==
  /\ pc[s] = "stopQueued"
  /\ chunksRef' = IF hasData THEN Append(chunksRef, "chunk") ELSE chunksRef
  /\ mediaState' = "processing"
  /\ blob' = [blob EXCEPT ![s] = chunksRef']
  /\ pc' = [pc EXCEPT ![s] = "encoding"]
  /\ lastOp' = Op("onstop", s, <<>>)
  /\ stoppedBy' = IF s = mediaRecorderRef THEN "none" ELSE stoppedBy
  /\ UNCHANGED <<capable, nextId, storeVars>>
  /\ UNCHANGED <<message, mediaRecorderRef, cleanupStreamRef, audioContextRef,
                 analyserRef, vadIntervalRef, silenceMs, hasDetectedSpeechRef>>
  /\ UNCHANGED <<streamLive, ctxOpen, timerLive, due, hist>>
  /\ UNCHANGED <<sinceHeard, sent>>
  /\ UNCHANGED <<viewVars, envVars, consoleVars, codecVars>>

\* runVoiceCommand rejects a payload with neither transcript nor audio;
\* btoa of no bytes is the empty string
PayloadRejected(audio) == Len(audio) = 0

\* variant: the catch block of onstop plays no cue
OnstopCatchCuesNone == <<>>

\* playAudioFeedback('error') in the catch block of recorder.onstop
OnstopCatchCues == <<"error">>

\* blobToBase64 settles.  Rejected: catch and finally of onstop.  Resolved:
\* runVoiceCommand up to await invokeVoiceAction (or to its early return)
EncodeDone(s, ok) ==
  /\ pc[s] = "encoding"
  /\ IF ok /\ ~PayloadRejected(blob[s])
       THEN /\ pendingCount' = pendingCount + 1
            /\ sent' = [sent EXCEPT ![s] = <<[carried |-> hist[s],
                                              store |-> conversationHistory]>>]
            /\ pc' = [pc EXCEPT ![s] = "dispatching"]
            /\ lastOp' = Op("dispatch", s, <<>>)
            /\ UNCHANGED <<message, streamLive, cleanupStreamRef, timerLive,
                           due, vadIntervalRef, ctxOpen, audioContextRef,
                           analyserRef, mediaState>>
       ELSE /\ pc' = [pc EXCEPT ![s] = "done"]
            /\ IF ok
                 THEN /\ lastOp' = Op("rejected", s, <<>>)
                      /\ UNCHANGED message
                 ELSE /\ lastOp' = Op("encodeFailed", s, OnstopCatchCues)
                      /\ message' = "Voice command failed."
            /\ OnstopFinally(s)
            /\ UNCHANGED <<pendingCount, sent>>
  /\ blob' = [blob EXCEPT ![s] = <<>>]      \* the local goes out of scope
  /\ UNCHANGED <<capable, nextId, conversationHistory>>
  /\ UNCHANGED <<mediaRecorderRef, chunksRef, silenceMs, hasDetectedSpeechRef>>
  /\ hist' = [hist EXCEPT ![s] = <<>>]      \* the closure is not used again
  /\ UNCHANGED <<sinceHeard, stoppedBy>>
  /\ UNCHANGED <<viewVars, envVars, consoleVars, codecVars>>

\* the answer to the request of session s, known here by its session only
Answer(s) == [id |-> s]

\* handleVoiceResponse for an answer that is no navigation and whose summary
\* is built without an exception; the turns carry the session, not the text
handleVoiceResponse(s) ==
  /\ lastResponse' = Answer(s)
  /\ responseLog' = SliceFirst(<<Answer(s)>> \o responseLog, LogCap)
  /\ conversationHistory' =
       SliceLast(conversationHistory \o <<Turn("user", s), Turn("assistant", s)>>,
                 HistoryCap)
  /\ UNCHANGED <<pipelineFilters, pipelineFiltersVersion>>

\* variant: the counter is not decremented when a call settles
SettledCountLeak(count) == count

\* the finally block of runVoiceCommand: Math.max(0, count - 1)
SettledCount(count) == IF count - 1 > 0 THEN count - 1 ELSE 0

\* variant: the catch block of onstop sets no message
DispatchFailedMessageNone == "null"

\* the message the catch block of recorder.onstop sets
DispatchFailedMessage == "Voice command failed."

\* invokeVoiceAction settles: the rest of runVoiceCommand (its finally),
\* then the rest of onstop
DispatchDone(s, ok) ==
  /\ pc[s] = "dispatching"
  /\ pc' = [pc EXCEPT ![s] = "done"]
  /\ pendingCount' = SettledCount(pendingCount)
  /\ IF ok
       THEN /\ handleVoiceResponse(s)
            /\ lastOp' = Op("dispatchOk", s, <<"gotIt">>)
            /\ UNCHANGED message
       ELSE /\ message' = DispatchFailedMessage
            /\ lastOp' = Op("dispatchFailed", s, OnstopCatchCues)
            /\ UNCHANGED <<conversationHistory, viewVars>>
  /\ OnstopFinally(s)
  /\ sent' = [sent EXCEPT ![s] = <<>>]      \* the request is no longer in flight
  /\ UNCHANGED <<capable, nextId>>
  /\ UNCHANGED <<mediaRecorderRef, chunksRef, silenceMs, hasDetectedSpeechRef>>
  /\ UNCHANGED <<hist, blob>>
  /\ UNCHANGED <<sinceHeard, stoppedBy>>
  /\ UNCHANGED <<envVars, consoleVars, codecVars>>

\* ------------------------------------------------------ clearConversation
clearConversation ==
  /\ conversationHistory' = <<>>
  /\ lastOp' = Op("clearConversation", NoSession, <<>>)
  /\ UNCHANGED <<capable, nextId, micVars, sessVars, pendingCount, obsVars>>
  /\ UNCHANGED <<viewVars, envVars, consoleVars, codecVars>>

\* ------------------------------------------------------------------ Next
Next ==
  \/ toggleRecording
  \/ \E s \in Sessions, outcome \in StartOutcomes : MicGranted(s, outcome)
  \/ \E s \in Sessions : MicDenied(s)
  \/ \E s \in Sessions : VadTick(s)
  \/ AdvanceTime
  \/ \E s \in Sessions, hasData \in BOOLEAN : OnStop(s, hasData)
  \/ \E s \in Sessions, ok \in BOOLEAN : EncodeDone(s, ok)
  \/ \E s \in Sessions, ok \in BOOLEAN : DispatchDone(s, ok)
  \/ clearConversation

Spec == Init /\ [][Next]_vars

TypeOK ==
  /\ mediaState \in {"idle", "recording", "processing", "error"}
  /\ pendingCount \in 0..MaxSessions
  /\ Len(conversationHistory) <= HistoryCap


\* ==================================================================
\* The provider on its own: runVoiceCommand calls answered by the endpoint
\* in any order, the dashboard's filter controls and the two resets
\* ==================================================================
Template(action, ex, heard) ==
  [intent_json |-> Obj([action |-> Str(action)]),
   execution_result |-> ex,
   transcript |-> Str(heard)]

Actions == {"create_job", "search_candidates", "score_candidate",
            "generate_screening_questions", "email_candidate",
            "move_candidate", "navigate_dashboard", "summarize_pipeline"}

Ada == Obj([name |-> Str("Ada"), candidate_id |-> Str("c1"),
            similarity |-> Num("0.9")])
EngineerJob == Obj([title |-> Str("Engineer"), short_id |-> Num("7")])

\* the result the endpoint gives when the action succeeded
Success(action) ==
  CASE action = "create_job" ->
         Obj([short_id |-> Num("7"), title |-> Str("Engineer"),
              required_skills |-> Arr(<<Str("go"), Str("sql")>>)])
    [] action = "search_candidates" ->
         Obj([candidates |-> Arr(<<Ada>>), summary |-> Str("1 match")])
    [] action = "score_candidate" ->
         Obj([overall_score |-> Num("87"), candidate |-> Ada,
              job |-> EngineerJob])
    [] action = "generate_screening_questions" ->
         Obj([questions |-> Arr(<<Str("q1"), Str("q2")>>),
              candidate |-> Ada, job |-> EngineerJob])
    [] action = "email_candidate" ->
         Obj([sent |-> Bool("true"), to |-> Str("ada@example.com"),
              auto_moved_to |-> Str("screening")])
    [] action = "move_candidate" ->
         Obj([candidate_name |-> Str("Ada"), from_stage |-> Str("applied"),
              to_stage |-> Str("screening")])
    [] action = "navigate_dashboard" ->
         Obj([view |-> Str("jobs"), filters |-> Obj([priority |-> Str("high")])])
    [] OTHER -> Obj([summary |-> Str("3 in screening")])

ErrorText == Str("Candidate not found")
ErrorOnly == Obj([error |-> ErrorText])
WithError(ex) == Obj([error |-> ErrorText] @@ ex.fields)

\* results of a shape the handler does not expect
Malformed ==
  { Template("search_candidates", Obj([candidates |-> Arr(<<Null>>)]), "find"),
    Template("search_candidates", Obj([candidates |-> Str("none")]), "find"),
    Template("score_candidate", Obj([overall_score |-> Num("0")]), "score"),
    Template("email_candidate", Obj([sent |-> Bool("false")]), "mail"),
    Template("score_candidate",
             Obj([overall_score |-> Num("87"),
                  chained_actions |-> Arr(<<Obj([action |-> Str("move_candidate"),
                                                 result |-> Obj([to_stage |-> Str("offer")])]),
                                            Obj([action |-> Str("score_candidate"),
                                                 result |-> Null])>>)]),
             "score"),
    Template("score_candidate",
             Obj([overall_score |-> Num("87"), chained_actions |-> Arr(<<Null>>)]),
             "score"),
    Template("move_candidate", Obj([chained_actions |-> Str("none")]), "") }

SummaryTemplates ==
  { Template(a, ex, "heard") :
      a \in Actions,
      ex \in {Undefined, ErrorOnly} }
  \cup { Template(a, Success(a), "heard") : a \in Actions }
  \cup { Template(a, WithError(Success(a)), "heard") : a \in Actions }
  \cup Malformed

PlainTemplate == Template("move_candidate", Success("move_candidate"), "heard")

ShapedTemplates ==
  { PlainTemplate,
    Template("navigate_dashboard", Success("navigate_dashboard"), "heard"),
    Template("navigate_dashboard", Undefined, "heard"),
    Template("navigate_dashboard",
             Obj([view |-> Str("candidates"),
                  filters |-> Obj([pipeline_stage |-> Num("5"),
                                   priority |-> Str("high")])]), "heard"),
    Template("navigate_dashboard",
             Obj([view |-> Num("7"),
                  filters |-> Obj([pipeline_stage |-> Str("screening")])]), "") }

\* the runs of answers explored: every single answer, every short mix of
\* navigations, and one long run of plain answers
Scripts ==
  { <<tpl>> : tpl \in SummaryTemplates }
  \cup UNION { [1..n -> ShapedTemplates] : n \in 1..MaxShaped }
  \cup { [i \in 1..MaxCalls |-> PlainTemplate] }

\* the next answer to arrive: res.json(); id numbers the answers by arrival
Response ==
  [id |-> received + 1,
   intent_json |-> script[received + 1].intent_json,
   execution_result |-> script[received + 1].execution_result,
   transcript |-> script[received + 1].transcript]

\* what FloatingMic passes to runVoiceCommand: { audio_base64 }
Payloads == { [transcript |-> Undefined, audio_base64 |-> audio] :
                audio \in {<<>>, <<"chunk">>} }


StoreInit ==
  /\ capable = TRUE
  /\ Idle
  /\ script \in Scripts
  /\ bytes = <<>>

\* the microphone takes no part
micAll == <<capable, nextId, micVars, sessVars, obsVars>>

StoreOp(name, r, pushed, asked) ==
  [op |-> name, s |-> r, cues |-> <<>>, age |-> -1, pushed |-> pushed,
   asked |-> asked]

RejectsPayload(payload) ==
  ~Truthy(payload.transcript) /\ PayloadRejected(payload.audio_base64)

\* the payload of every call that submitted a request
SubmittedPayload == [transcript |-> Undefined, audio_base64 |-> <<"chunk">>]

\* runVoiceCommand up to await invokeVoiceAction, or to its early return
runVoiceCommand(payload) ==
  /\ received + flying < Len(script)
  /\ flying < MaxInFlight
  /\ IF RejectsPayload(payload)
       THEN /\ lastOp' = StoreOp("rejectedPayload", 0, <<>>, <<>>)
            /\ UNCHANGED <<pendingCount, flying>>
       ELSE /\ pendingCount' = pendingCount + 1
            /\ flying' = flying + 1
            /\ lastOp' = StoreOp("submit", 0, <<>>, <<>>)
  /\ UNCHANGED <<micAll, conversationHistory, viewVars, script, received, edits>>
  /\ UNCHANGED <<consoleVars, codecVars>>

\* variant: the comparison looks at the stage only
SameFiltersStageOnly(current, nextFilters) ==
  current.pipeline_stage = nextFilters.pipeline_stage

\* current.pipeline_stage === next.pipeline_stage && current.priority === ...
SameFilters(current, nextFilters) ==
  /\ current.pipeline_stage = nextFilters.pipeline_stage
  /\ current.priority = nextFilters.priority

updatePipelineFilters(nextFilters) ==
  /\ pipelineFilters' = IF SameFilters(pipelineFilters, nextFilters)
                          THEN pipelineFilters ELSE nextFilters
  /\ pipelineFiltersVersion' = IF SameFilters(pipelineFilters, nextFilters)
                                 THEN pipelineFiltersVersion
                                 ELSE pipelineFiltersVersion + 1

\* a turn of the history; id names the response it belongs to
TurnOf(role, r, content) == [role |-> role, id |-> r, content |-> content]

\* response.transcript || payload.transcript || ''
UserTranscript(response, payload) ==
  IF Truthy(response.transcript) THEN Text(response.transcript)
  ELSE IF Truthy(payload.transcript) THEN Text(payload.transcript)
  ELSE ""

\* variant: the assistant turn is put before the user turn
ExchangeSwapped(response, userTranscript) ==
  <<TurnOf("assistant", response.id, AssistantContent(response)),
    TurnOf("user", response.id, userTranscript)>>

\* the two turns one response appends
Exchange(response, userTranscript) ==
  <<TurnOf("user", response.id, userTranscript),
    TurnOf("assistant", response.id, AssistantContent(response))>>

\* handleVoiceResponse in full (lines 73-189); an exception raised while the
\* summary is built leaves the two updates already requested and skips the
\* rest
HandleVoiceResponse(response, userTranscript) ==
  /\ lastResponse' = response
  /\ responseLog' = SliceFirst(<<response>> \o responseLog, LogCap)
  /\ IF SummaryThrows(response)
       THEN /\ lastOp' = StoreOp("respondThrew", response.id, <<>>, <<>>)
            /\ UNCHANGED <<conversationHistory, pipelineFilters,
                           pipelineFiltersVersion>>
       ELSE /\ conversationHistory' =
                 SliceLast(conversationHistory
                             \o Exchange(response, userTranscript), HistoryCap)
            /\ IF ActionOf(response) = Str("navigate_dashboard")
                 THEN /\ updatePipelineFilters(
                           normalizePipelineFilters(
                             Get(ExecutionOf(response), "filters")))
                      /\ lastOp' = StoreOp("respond", response.id,
                           <<mapViewToRoute(ViewOf(ExecutionOf(response)))>>,
                           <<normalizePipelineFilters(
                               Get(ExecutionOf(response), "filters"))>>)
                 ELSE /\ UNCHANGED <<pipelineFilters, pipelineFiltersVersion>>
                      /\ lastOp' = StoreOp("respond", response.id, <<>>, <<>>)

\* invokeVoiceAction of a call in flight settles: the rest of
\* runVoiceCommand
VoiceCommandSettles(ok) ==
  /\ flying > 0
  /\ flying' = flying - 1
  /\ pendingCount' = SettledCount(pendingCount)
  /\ IF ok
       THEN /\ HandleVoiceResponse(Response,
                                   UserTranscript(Response, SubmittedPayload))
            /\ received' = received + 1
       ELSE /\ lastOp' = StoreOp("failed", 0, <<>>, <<>>)
            /\ UNCHANGED <<conversationHistory, viewVars, received>>
  /\ UNCHANGED <<micAll, script, edits>>
  /\ UNCHANGED <<consoleVars, codecVars>>

\* the choices of the two selects of PipelineView
FilterChoices ==
  { <<"pipeline_stage", Null>>, <<"pipeline_stage", Str("screening")>>,
    <<"priority", Null>>, <<"priority", Str("high")>> }

\* PipelineView.updateFilter: onFiltersChange({ ...filters, [key]: value })
setPipelineFilters(key, value) ==
  /\ edits < MaxEdits
  /\ edits' = edits + 1
  /\ updatePipelineFilters([pipelineFilters EXCEPT ![key] = value])
  /\ lastOp' = StoreOp("dashboard", 0, <<>>,
                       << [pipelineFilters EXCEPT ![key] = value] >>)
  /\ UNCHANGED <<micAll, storeVars, lastResponse, responseLog>>
  /\ UNCHANGED <<consoleVars, codecVars>>
  /\ UNCHANGED <<script, received, flying>>

\* variant: the last response is kept
ClearedLastResponseKept == lastResponse

\* setLastResponse(null)
ClearedLastResponse == Null

clearHistory ==
  /\ responseLog' = <<>>
  /\ lastResponse' = ClearedLastResponse
  /\ lastOp' = StoreOp("clearHistory", 0, <<>>, <<>>)
  /\ UNCHANGED <<micAll, storeVars, pipelineFilters, pipelineFiltersVersion>>
  /\ UNCHANGED <<consoleVars, codecVars>>
  /\ UNCHANGED <<envVars, consoleVars, codecVars>>

StoreNext ==
  \/ \E payload \in Payloads : runVoiceCommand(payload)
  \/ \E ok \in BOOLEAN : VoiceCommandSettles(ok)
  \/ \E choice \in FilterChoices : setPipelineFilters(choice[1], choice[2])
  \/ clearConversation
  \/ clearHistory

StoreSpec == StoreInit /\ [][StoreNext]_vars

\* ==================================================================
\* The audio encoder on its own: blobToBase64 of FloatingMic and
\* fileToBase64 of VoiceConsole applied to the bytes of a recording or file
\* ==================================================================
chunkSize == 2        \* 0x8000 in the code: the window of the loop, scaled
                      \* down; like 0x8000 it leaves 2 when divided by 3
MaxBytes == 5         \* bytes in the longest input explored
ByteValues == {0, 77, 255}

RECURSIVE SeqsUpTo(_, _)
SeqsUpTo(values, n) ==
  IF n = 0 THEN {<<>>}
  ELSE SeqsUpTo(values, n - 1)
         \cup {Append(s, v) : s \in {q \in SeqsUpTo(values, n - 1) : Len(q) = n - 1},
                              v \in values}

\* the contents of the blobs and files explored
ByteSeqs == SeqsUpTo(ByteValues, MaxBytes)

\* the base64 alphabet of btoa and atob
Alphabet ==
  <<"A", "B", "C", "D", "E", "F", "G", "H", "I", "J", "K", "L", "M",
    "N", "O", "P", "Q", "R", "S", "T", "U", "V", "W", "X", "Y", "Z",
    "a", "b", "c", "d", "e", "f", "g", "h", "i", "j", "k", "l", "m",
    "n", "o", "p", "q", "r", "s", "t", "u", "v", "w", "x", "y", "z",
    "0", "1", "2", "3", "4", "5", "6", "7", "8", "9", "+", "/">>

\* String.fromCharCode(...chunk): one UTF-16 code unit per element
FromCharCode(chunk) == [i \in 1..Len(chunk) |-> chunk[i] % 65536]

\* bytes.subarray(begin, end), positions counted from 0, end clamped
Subarray(array, begin, end) ==
  SubSeq(array, begin + 1, IF end < Len(array) THEN end ELSE Len(array))

\* the for loop of both encoders: binary += String.fromCharCode(...chunk)
\* for i = 0, chunkSize, 2 * chunkSize, ... while i < bytes.length
RECURSIVE BinaryFrom(_, _)
BinaryFrom(array, i) ==
  IF i >= Len(array) THEN <<>>
  ELSE FromCharCode(Subarray(array, i, i + chunkSize))
         \o BinaryFrom(array, i + chunkSize)

\* btoa of a binary string (every code unit below 256): three characters
\* give four letters, a rest of one or two is padded with "="
RECURSIVE btoa(_)
btoa(binary) ==
  IF Len(binary) = 0 THEN <<>>
  ELSE IF Len(binary) = 1
    THEN <<Alphabet[(binary[1] \div 4) + 1],
           Alphabet[((binary[1] % 4) * 16) + 1], "=", "=">>
  ELSE IF Len(binary) = 2
    THEN <<Alphabet[(binary[1] \div 4) + 1],
           Alphabet[((binary[1] % 4) * 16) + (binary[2] \div 16) + 1],
           Alphabet[((binary[2] % 16) * 4) + 1], "=">>
  ELSE <<Alphabet[(binary[1] \div 4) + 1],
         Alphabet[((binary[1] % 4) * 16) + (binary[2] \div 16) + 1],
         Alphabet[((binary[2] % 16) * 4) + (binary[3] \div 64) + 1],
         Alphabet[(binary[3] % 64) + 1]>>
       \o btoa(SubSeq(binary, 4, Len(binary)))

\* variant: every window is encoded on its own and the strings are joined
RECURSIVE blobToBase64PerWindow(_)
blobToBase64PerWindow(array) ==
  IF Len(array) = 0 THEN <<>>
  ELSE btoa(FromCharCode(Subarray(array, 0, chunkSize)))
         \o blobToBase64PerWindow(Subarray(array, chunkSize, Len(array)))

\* FloatingMic.blobToBase64, after blob.arrayBuffer() has resolved
blobToBase64(array) == btoa(BinaryFrom(array, 0))

\* VoiceConsole.fileToBase64, after file.arrayBuffer() has resolved
fileToBase64(array) == btoa(BinaryFrom(array, 0))

\* the number a letter of the alphabet stands for
Sextet(letter) == (CHOOSE i \in 1..64 : Alphabet[i] = letter) - 1

\* the bytes a base64 string stands for (atob, then charCodeAt of each
\* character)
RECURSIVE atob(_)
atob(text) ==
  IF Len(text) < 4 THEN <<>>
  ELSE LET a == Sextet(text[1])
           b == Sextet(text[2])
       IN  (IF text[3] = "="
              THEN <<(a * 4) + (b \div 16)>>
            ELSE IF text[4] = "="
              THEN <<(a * 4) + (b \div 16),
                     ((b % 16) * 16) + (Sextet(text[3]) \div 4)>>
            ELSE <<(a * 4) + (b \div 16),
                   ((b % 16) * 16) + (Sextet(text[3]) \div 4),
                   ((Sextet(text[3]) % 4) * 64) + Sextet(text[4])>>)
           \o atob(SubSeq(text, 5, Len(text)))

EncInit ==
  /\ capable = TRUE
  /\ Idle
  /\ script = <<>>
  /\ bytes \in ByteSeqs

\* nothing but the encoder runs
allButCodec == <<progVars, obsVars, lastOp, viewVars, envVars, consoleVars>>

\* blobToBase64 applied to the recording
EncodeBlob ==
  /\ encoded' = blobToBase64(bytes)
  /\ encodedBy' = "blobToBase64"
  /\ UNCHANGED <<bytes, allButCodec>>

\* fileToBase64 applied to the file
EncodeFile ==
  /\ encoded' = fileToBase64(bytes)
  /\ encodedBy' = "fileToBase64"
  /\ UNCHANGED <<bytes, allButCodec>>

EncNext == EncodeBlob \/ EncodeFile

EncSpec == EncInit /\ [][EncNext]_vars

\* ==================================================================
\* VoiceConsole on its own: the transcript typed, the audio chosen or
\* recorded, handleSubmit and the requests it has in flight
\* ==================================================================
MaxText == 2          \* characters in the longest transcript typed
Characters == {" ", "a"}

\* what can be typed into the textarea
Texts == SeqsUpTo(Characters, MaxText)

\* the files chosen and the recordings made: empty, or one byte
ConsoleFiles == {b \in ByteSeqs : Len(b) = 0 \/ b = <<77>>}

\* String.prototype.trim: the white space at both ends is dropped
RECURSIVE TrimStart(_)
TrimStart(text) ==
  IF Len(text) > 0 /\ Head(text) = " " THEN TrimStart(Tail(text)) ELSE text

RECURSIVE TrimEnd(_)
TrimEnd(text) ==
  IF Len(text) > 0 /\ text[Len(text)] = " "
    THEN TrimEnd(SubSeq(text, 1, Len(text) - 1))
    ELSE text

Trim(text) == TrimEnd(TrimStart(text))

ConsoleInit ==
  /\ capable = TRUE
  /\ Idle
  /\ script = <<>>
  /\ bytes = <<>>

\* nothing but the console runs
allButConsole == <<progVars, obsVars, viewVars, envVars, codecVars>>

\* onChange of the textarea
setTranscript(text) ==
  /\ transcript' = text
  /\ lastOp' = Op("setTranscript", NoSession, <<>>)
  /\ UNCHANGED <<audioBase64, error, pendingRequests, wire, allButConsole>>

\* handleFile: no file chosen, or the file encoded (ok) or not readable
handleFile(file, ok) ==
  /\ IF ~file.has
       THEN audioBase64' = Absent /\ UNCHANGED error
       ELSE IF ok
         THEN audioBase64' = Given(fileToBase64(file.text)) /\ error' = "null"
         ELSE error' = "Unable to process audio file." /\ UNCHANGED audioBase64
  /\ lastOp' = Op("handleFile", NoSession, <<>>)
  /\ UNCHANGED <<transcript, pendingRequests, wire, allButConsole>>

\* recorder.onstop of the console's own recorder: the recording encoded
recordingStopped(recorded) ==
  /\ audioBase64' = Given(fileToBase64(recorded))
  /\ lastOp' = Op("recordingStopped", NoSession, <<>>)
  /\ UNCHANGED <<transcript, error, pendingRequests, wire, allButConsole>>

\* the Clear audio button, shown while audio is held
clearAudio ==
  /\ Filled(audioBase64)
  /\ audioBase64' = Absent
  /\ lastOp' = Op("clearAudio", NoSession, <<>>)
  /\ UNCHANGED <<transcript, error, pendingRequests, wire, allButConsole>>

\* the payload handleSubmit builds (lines 100-106)
SubmitPayload(typed, audio) ==
  LET spoken == IF Len(Trim(typed)) > 0 THEN Given(Trim(typed)) ELSE Absent
  IN  [transcript |-> spoken,
       audio_base64 |-> IF ~Filled(spoken) /\ Filled(audio)
                          THEN audio ELSE Absent]

\* handleSubmit, up to the call of invokeVoiceAction
handleSubmit ==
  /\ Len(wire) < MaxInFlight
  /\ IF ~(Len(transcript) > 0) /\ ~Filled(audioBase64)
       THEN /\ error' = "Provide a transcript or recording."
            /\ lastOp' = Op("submitRefused", NoSession, <<>>)
            /\ UNCHANGED <<transcript, audioBase64, pendingRequests, wire>>
       ELSE /\ error' = "null"
            /\ pendingRequests' = pendingRequests + 1
            /\ wire' = Append(wire, SubmitPayload(transcript, audioBase64))
            /\ transcript' = <<>>
            /\ audioBase64' = Absent
            /\ lastOp' = Op("submitSent", NoSession, <<>>)
  /\ UNCHANGED allButConsole

\* the request at place i settles: then (onResult, a prop of the parent) or
\* catch, and finally
ConsoleRequestSettles(i, ok) ==
  /\ i \in 1..Len(wire)
  /\ wire' = SubSeq(wire, 1, i - 1) \o SubSeq(wire, i + 1, Len(wire))
  /\ IF ok THEN UNCHANGED error ELSE error' = "Voice action failed."
  /\ pendingRequests' = pendingRequests - 1
  /\ lastOp' = Op(IF ok THEN "consoleResult" ELSE "consoleFailed", NoSession, <<>>)
  /\ UNCHANGED <<transcript, audioBase64, allButConsole>>

ConsoleNext ==
  \/ \E text \in Texts : setTranscript(text)
  \/ \E b \in ConsoleFiles, ok \in BOOLEAN : handleFile(Given(b), ok)
  \/ handleFile(Absent, TRUE)
  \/ \E b \in ConsoleFiles : recordingStopped(b)
  \/ clearAudio
  \/ handleSubmit
  \/ \E i \in 1..MaxInFlight, ok \in BOOLEAN : ConsoleRequestSettles(i, ok)

ConsoleSpec == ConsoleInit /\ [][ConsoleNext]_vars

\* ==================================================================
\* Properties
\* ==================================================================
Live == {s \in Sessions : streamLive[s]}
Recording == {s \in Sessions : RecorderState(pc[s]) = "recording"}
VadOps == {"vadSkip", "vadSpeech", "vadQuiet", "vadStop"}
ToggleOps == {"toggleNoop", "toggleStop", "toggleStopLate", "toggleStart",
              "unsupported"}
StartErrorOps == {"unsupported", "micDenied", "startFailed"}
ProcessingErrorOps == {"encodeFailed", "dispatchFailed"}

\* the clock may stand still while no callback can sample: the speech flag
\* is never true then, unless no analyser is referenced, and an analyser
\* becomes referenced only together with hasDetectedSpeechRef = false
TimeSound ==
  [][/\ (hasDetectedSpeechRef' /\ ~Monitoring') => analyserRef' = NoSession
     /\ (analyserRef' # analyserRef /\ analyserRef' # NoSession)
           => ~hasDetectedSpeechRef'
     /\ (~hasDetectedSpeechRef') => silenceMs' = 0]_vars

\* C1: at most one microphone stream is live and at most one recorder is
\* recording at any time, under every interleaving of toggles, permission
\* completions, VAD ticks and dispatch completions.
C1_OneActiveSession ==
  Cardinality(Live) <= 1 /\ Cardinality(Recording) <= 1

\* C2: every request runVoiceCommand submits carries the conversation
\* history the store holds at the moment of submission.
C2_DispatchCarriesCurrentHistory ==
  \A s \in Sessions :
    sent[s] # <<>> => sent[s][1].carried = sent[s][1].store

\* C3: the VAD callback stops a recorder only if a sample above the speech
\* threshold was taken earlier for that recorder.
C3_AutoStopOnlyAfterSpeech ==
  lastOp.op = "vadStop" => lastOp.age >= 0

\* C4 (as stated): after a sample above the threshold at T and only quieter
\* samples since, the callback stops the recorder at the first sample taken
\* at least 1200 ms after T and at no earlier one.
C4_StopsAtFirstSampleFrom1200 ==
  /\ (lastOp.op = "vadQuiet" /\ lastOp.age >= 0)
        => lastOp.age < SILENCE_DURATION_MS
  /\ (lastOp.op = "vadStop" /\ lastOp.age >= 0)
        => lastOp.age >= SILENCE_DURATION_MS

\* C4 (amended): after a sample above the threshold at T and only quieter
\* samples since, the callback stops the recorder at the first sample taken
\* more than 1200 ms after T (T + 1400 ms when sampling every 200 ms) and at
\* no earlier one; the sample taken exactly 1200 ms after T does not stop it.
C4_StopsAtFirstSampleAfter1200 ==
  /\ (lastOp.op = "vadQuiet" /\ lastOp.age >= 0)
        => lastOp.age <= SILENCE_DURATION_MS
  /\ (lastOp.op = "vadStop" /\ lastOp.age >= 0)
        => lastOp.age > SILENCE_DURATION_MS

C4_Witness ==
  /\ lastOp.op = "vadStop"
  /\ lastOp.age = SILENCE_DURATION_MS + VAD_SAMPLE_INTERVAL_MS
  /\ pc[lastOp.s] = "stopQueued"

\* C5: a toggle while processing changes nothing; a toggle while recording
\* leaves the referenced recorder stopped and starts nothing; a toggle while
\* idle or error makes one new start attempt (which awaits the microphone
\* when the capability is present) and stops nothing.
C5_ToggleContract ==
  [][lastOp'.op \in ToggleOps =>
       /\ mediaState = "processing" => UNCHANGED <<progVars, obsVars>>
       /\ mediaState = "recording" =>
            /\ mediaRecorderRef # NoSession
            /\ RecorderState(pc'[mediaRecorderRef]) = "inactive"
            /\ UNCHANGED <<nextId, streamLive, mediaState, storeVars, sent>>
       /\ mediaState \in {"idle", "error"} =>
            /\ nextId' = nextId + 1
            /\ pc'[nextId'] = IF capable THEN "awaitMic" ELSE "unsupported"
            /\ \A s \in Sessions \ {nextId'} : pc'[s] = pc[s]
            /\ UNCHANGED <<streamLive, storeVars, sent>>]_vars

C5_Witness ==
  lastOp.op = "toggleNoop" /\ mediaState = "processing"
    /\ \E s \in Sessions : pc[s] = "dispatching"

\* C6: of a manual stop and a VAD timeout for the same recording only the
\* first takes the recorder out of recording and the later one changes
\* nothing; a recorder is stopped at most once, its onstop handler runs at
\* most once and submits at most one request.
C6_FirstStopWins ==
  [][/\ \A s \in Sessions :
          /\ (pc'[s] = "stopQueued" /\ pc[s] # "stopQueued") => pc[s] = "recording"
          /\ (pc'[s] = "encoding" /\ pc[s] # "encoding") => pc[s] = "stopQueued"
          /\ (pc'[s] = "dispatching" /\ pc[s] # "dispatching") => pc[s] = "encoding"
          /\ pc[s] = "done" => pc'[s] = "done"
     /\ lastOp'.op = "toggleStop" =>
          pc[lastOp'.s] = "recording" /\ pc'[lastOp'.s] = "stopQueued"
     /\ lastOp'.op = "vadStop" =>
          pc[lastOp'.s] = "recording" /\ pc'[lastOp'.s] = "stopQueued"
     /\ lastOp'.op = "toggleStopLate" => UNCHANGED <<progVars, obsVars>>
     /\ (lastOp'.op \in VadOps /\ mediaRecorderRef # NoSession
           /\ RecorderState(pc[mediaRecorderRef]) # "recording") =>
          UNCHANGED <<capable, nextId, micVars, storeVars, obsVars,
                      pc, streamLive, ctxOpen, timerLive, hist, blob>>]_vars

C6_Witness ==
  /\ lastOp.op = "toggleStopLate"
  /\ stoppedBy = "vad"
  /\ pc[lastOp.s] = "stopQueued"

\* C7: a session whose dispatch is in flight no longer holds a live stream.
C7_StreamReleasedAtStop ==
  \A s \in Sessions : pc[s] = "dispatching" => ~streamLive[s]

\* C8: whenever the state is idle or error no acquired stream is live.
C8_StreamReleasedOnEveryExit ==
  mediaState \in {"idle", "error"} => Live = {}

\* C9 (as stated): every error path leaves the state idle.
C9_ErrorLeavesIdle ==
  lastOp.op \in (StartErrorOps \cup ProcessingErrorOps) => mediaState = "idle"

\* C9 (amended): every error path leaves the state idle or error, never
\* recording or processing: a missing capability, a denied permission and a
\* start-up failure leave it error, an encoding or dispatch failure idle.
C9_ErrorLeavesIdleOrError ==
  /\ lastOp.op \in StartErrorOps => mediaState = "error"
  /\ lastOp.op \in ProcessingErrorOps => mediaState = "idle"

C9_Witness ==
  lastOp.op = "dispatchFailed" /\ mediaState = "idle" /\ pendingCount = 0

\* C10: a denied microphone permission sets the state to error and the
\* message, plays the error cue, and the denied attempt holds no stream,
\* recorder, timer or audio context and changes none of the refs.
C10_PermissionDenied ==
  [][lastOp'.op = "micDenied" =>
       /\ mediaState' = "error"
       /\ message' = "Microphone access was denied."
       /\ lastOp'.cues = <<"error">>
       /\ pc[lastOp'.s] = "awaitMic"
       /\ RecorderState(pc'[lastOp'.s]) = "none"
       /\ ~streamLive'[lastOp'.s]
       /\ ~timerLive'[lastOp'.s]
       /\ ~ctxOpen'[lastOp'.s]
       /\ UNCHANGED <<mediaRecorderRef, cleanupStreamRef, audioContextRef,
                      analyserRef, vadIntervalRef, chunksRef,
                      streamLive, timerLive, ctxOpen>>]_vars

C10_Witness ==
  lastOp.op = "micDenied" /\ mediaState = "error" /\ Live = {}

\* C11: when new AudioContext() throws after the stream was granted and the
\* recorder was started, the attempt is recording and the state is recording
\* (so that the next toggle is a manual stop), never error.
C11_RecordsWithoutAnalyser ==
  (lastOp.op = "startFailed" /\ pc[lastOp.s] = "recording")
     => mediaState = "recording"

InFlight == {s \in Sessions : pc[s] = "dispatching"}

\* C12: pendingCount is never negative and equals the number of
\* runVoiceCommand calls that have submitted a request and not yet settled,
\* whatever the outcome of the settled ones; it is 0 when none is in flight.
C12_PendingCountsInFlight ==
  pendingCount >= 0 /\ pendingCount = Cardinality(InFlight)

C12_Witness ==
  pendingCount = 2 /\ Cardinality(InFlight) = 2

\* C13: the step in which a dispatch fails leaves the conversation history
\* as it was, takes the failed call (and nothing else) off the in-flight
\* counter, which is 0 afterwards when no other call is in flight, and sets
\* the error message.
C13_FailedDispatchFrame ==
  [][lastOp'.op = "dispatchFailed" =>
       /\ conversationHistory' = conversationHistory
       /\ pendingCount >= 1
       /\ pendingCount' = pendingCount - 1
       /\ (InFlight \ {lastOp'.s} = {}) => pendingCount' = 0
       /\ message' # "null"
       /\ message' = "Voice command failed."]_vars

C13_Witness ==
  /\ lastOp.op = "dispatchFailed"
  /\ conversationHistory # <<>>
  /\ message = "Voice command failed."
  /\ pendingCount = Cardinality(InFlight)

\* the turns at positions from..to of the history after the step
Kept(from, to) == SubSeq(conversationHistory', from, to)

\* C14: the history never holds more than 6 turns; a handled response adds
\* its two turns at the end, and when that would make more than 6 the turns
\* dropped are the oldest ones, the rest keeping their places in order, so
\* that a full history is the three most recent exchanges.
C14_HistoryKeepsLastThree ==
  [][/\ Len(conversationHistory') <= 6
     /\ lastOp'.op = "respond" =>
          LET before == Len(conversationHistory)
              after == Len(conversationHistory')
          IN  /\ after = (IF before + 2 <= 6 THEN before + 2 ELSE 6)
              /\ after >= 2
              /\ conversationHistory'[after - 1].role = "user"
              /\ conversationHistory'[after].role = "assistant"
              /\ conversationHistory'[after - 1].id = lastOp'.s
              /\ conversationHistory'[after].id = lastOp'.s
              /\ Kept(1, after - 2) =
                   SubSeq(conversationHistory, before - (after - 2) + 1, before)]_vars

C14_Witness ==
  /\ lastOp.op = "respond"
  /\ received >= 4
  /\ Len(conversationHistory) = 6
  /\ conversationHistory[1].id = received - 2
  /\ conversationHistory[3].id = received - 1
  /\ conversationHistory[5].id = received

\* the positions of the user turns of a history made of whole exchanges
PairStarts == {i \in 1..Len(conversationHistory) : i % 2 = 1}

\* C15: whatever the number of calls in flight, the history is a run of
\* exchanges, each one the user turn of an answer immediately followed by the
\* assistant turn of the same answer, the exchanges standing in the order in
\* which the answers arrived and no answer appearing twice.
C15_ExchangesStayPaired ==
  /\ Len(conversationHistory) % 2 = 0
  /\ \A i \in PairStarts :
       /\ conversationHistory[i].role = "user"
       /\ conversationHistory[i + 1].role = "assistant"
       /\ conversationHistory[i].id = conversationHistory[i + 1].id
       /\ conversationHistory[i].id \in 1..received
       /\ i + 2 <= Len(conversationHistory) =>
            conversationHistory[i].id < conversationHistory[i + 2].id

C15_Witness ==
  /\ lastOp.op = "respond"
  /\ flying >= 1
  /\ pendingCount >= 1
  /\ Len(conversationHistory) >= 4
  /\ conversationHistory[Len(conversationHistory)].id = received

\* the steps that call updatePipelineFilters: a handled navigation and a
\* change of one of the two selects of the dashboard
CallsUpdateFilters(op) ==
  op.op = "dashboard" \/ (op.op = "respond" /\ op.asked # <<>>)

\* C16: a call of updatePipelineFilters, from a voice answer or from the
\* dashboard, commits the submitted value and adds exactly 1 to the version
\* when the value differs from the current one in a field, and changes
\* neither the value nor the version when it is the same; no step lowers the
\* version, and no other step changes the value or the version.
C16_VersionCountsCommits ==
  [][/\ pipelineFiltersVersion' >= pipelineFiltersVersion
     /\ IF CallsUpdateFilters(lastOp')
          THEN LET submitted == lastOp'.asked[1] IN
               IF \/ submitted.pipeline_stage # pipelineFilters.pipeline_stage
                  \/ submitted.priority # pipelineFilters.priority
                 THEN /\ pipelineFilters' = submitted
                      /\ pipelineFiltersVersion' = pipelineFiltersVersion + 1
                 ELSE /\ pipelineFilters' = pipelineFilters
                      /\ pipelineFiltersVersion' = pipelineFiltersVersion
          ELSE /\ pipelineFilters' = pipelineFilters
               /\ pipelineFiltersVersion' = pipelineFiltersVersion]_vars

\* the same navigation answered twice: one commit, then none
C16_Witness ==
  /\ lastOp.op = "respond"
  /\ lastOp.asked = <<pipelineFilters>>
  /\ pipelineFilters # NoFilters
  /\ edits = 0
  /\ Len(responseLog) = 2
  /\ responseLog[1].execution_result = responseLog[2].execution_result
  /\ ActionOf(responseLog[2]) = Str("navigate_dashboard")
  /\ pipelineFiltersVersion = 1

\* a field of the filters of an answer, kept only when it is a string
KeptWhenString(given, field) ==
  IF Get(given, field).type = "string" THEN Get(given, field) ELSE Null

\* C17: a handled navigate_dashboard answer leaves the filters equal to the
\* normalisation of executionResult.filters (stage and priority each kept
\* only when a string, otherwise null; no filters give {null, null}), bumps
\* the version once exactly when that value differs from the current one,
\* and requests one navigation, to /jobs for view jobs, /candidates for view
\* candidates and /pipeline for anything else; from the initial state, view
\* jobs with filters {priority: high} gives {null, high}, version 1, /jobs.
C17_NavigationCommitsAndRoutes ==
  [][(lastOp'.op = "respond"
        /\ ActionOf(lastResponse') = Str("navigate_dashboard")) =>
       LET ex == lastResponse'.execution_result
           given == Get(ex, "filters")
           view == Get(ex, "view")
           expected == [pipeline_stage |-> KeptWhenString(given, "pipeline_stage"),
                        priority |-> KeptWhenString(given, "priority")]
       IN  /\ pipelineFilters' = expected
           /\ pipelineFiltersVersion' =
                IF expected = pipelineFilters
                  THEN pipelineFiltersVersion
                  ELSE pipelineFiltersVersion + 1
           /\ lastOp'.pushed =
                << CASE view = Str("jobs") -> "/jobs"
                     [] view = Str("candidates") -> "/candidates"
                     [] OTHER -> "/pipeline" >>
           /\ given = Undefined => pipelineFilters' = NoFilters
           /\ ( /\ pipelineFilters = NoFilters
                /\ pipelineFiltersVersion = 0
                /\ view = Str("jobs")
                /\ given = Obj([priority |-> Str("high")]) ) =>
                  /\ pipelineFilters' =
                       [pipeline_stage |-> Null, priority |-> Str("high")]
                  /\ pipelineFiltersVersion' = 1
                  /\ lastOp'.pushed = <<"/jobs">>]_vars

C17_Witness ==
  /\ lastOp.op = "respond"
  /\ received = 1 /\ edits = 0
  /\ ActionOf(lastResponse) = Str("navigate_dashboard")
  /\ Get(lastResponse.execution_result, "view") = Str("jobs")
  /\ Get(lastResponse.execution_result, "filters") =
       Obj([priority |-> Str("high")])
  /\ pipelineFilters = [pipeline_stage |-> Null, priority |-> Str("high")]
  /\ pipelineFiltersVersion = 1
  /\ lastOp.pushed = <<"/jobs">>

\* C18: clearConversation empties the conversation history and changes none
\* of lastResponse, responseLog, the filters, their version and
\* pendingCount; clearHistory empties responseLog and lastResponse and
\* changes none of the conversation history, the filters, their version and
\* pendingCount.
C18_ResetsAreIndependent ==
  [][/\ lastOp'.op = "clearConversation" =>
          /\ conversationHistory' = <<>>
          /\ lastResponse' = lastResponse
          /\ responseLog' = responseLog
          /\ pipelineFilters' = pipelineFilters
          /\ pipelineFiltersVersion' = pipelineFiltersVersion
          /\ pendingCount' = pendingCount
     /\ lastOp'.op = "clearHistory" =>
          /\ responseLog' = <<>>
          /\ lastResponse' = Null
          /\ conversationHistory' = conversationHistory
          /\ pipelineFilters' = pipelineFilters
          /\ pipelineFiltersVersion' = pipelineFiltersVersion
          /\ pendingCount' = pendingCount]_vars

\* both resets made after a navigation was handled, a call still in flight
C18_Witness ==
  /\ lastOp.op = "clearHistory"
  /\ conversationHistory = <<>>
  /\ responseLog = <<>> /\ lastResponse = Null
  /\ received >= 1 /\ edits = 0
  /\ pipelineFiltersVersion = 1
  /\ pendingCount >= 1

\* C19: responseLog never holds more than 10 answers; every answer received
\* becomes lastResponse and the first entry of the log, the entries already
\* there moving down one place in order and the oldest leaving when there
\* were 10, so that the log is the most recent answers, newest first.
C19_LogKeepsLastTen ==
  [][/\ Len(responseLog') <= 10
     /\ lastOp'.op \in {"respond", "respondThrew"} =>
          LET before == Len(responseLog)
              after == Len(responseLog')
          IN  /\ after = (IF before < 10 THEN before + 1 ELSE 10)
              /\ lastResponse' = responseLog'[1]
              /\ lastResponse'.id = received'
              /\ lastResponse'.id = lastOp'.s
              /\ lastResponse'.execution_result =
                   script[received'].execution_result
              /\ SubSeq(responseLog', 2, after) =
                   SubSeq(responseLog, 1, after - 1)
              /\ \A i \in 1..after : responseLog'[i].id = received' - i + 1]_vars

C19_Witness ==
  /\ lastOp.op = "respond"
  /\ received = 11
  /\ Len(responseLog) = 10
  /\ lastResponse.id = 11
  /\ responseLog[1].id = 11
  /\ responseLog[10].id = 2

\* the openings of the fragments that report an action as done
SuccessSummaries ==
  {". Moved", ". Email sent to", ". Draft email prepared for", ". Scored",
   ". Created job"}

CarriesError(ex) == ex.type = "object" /\ "error" \in DOMAIN ex.fields

\* the fragments of the assistant turn appended last
LastAssistantContent ==
  conversationHistory[Len(conversationHistory)].content

\* C20: when the executionResult of a handled answer carries an error
\* field, whatever its action, the assistant turn appended for it holds
\* none of the success summaries (Moved, Email sent to, Draft email
\* prepared for, Scored, Created job).
C20_ErrorIsNotSummarisedAsSuccess ==
  (lastOp.op = "respond" /\ CarriesError(ExecutionOf(lastResponse))) =>
     \A i \in 1..Len(LastAssistantContent) :
        LastAssistantContent[i][1] \notin SuccessSummaries

\* the steps in which an answer of the endpoint was given to
\* handleVoiceResponse
AnswerOps == {"respond", "respondThrew"}

\* C21: every answer given to the handler, whatever the shape of its
\* executionResult, is in lastResponse, at the head of responseLog and in the
\* last two turns of the history once the handler has returned: the three
\* are updated together.
C21_MalformedStillAppendsPair ==
  lastOp.op \in AnswerOps =>
    /\ lastResponse.id = lastOp.s
    /\ responseLog[1].id = lastOp.s
    /\ Len(conversationHistory) >= 2
    /\ conversationHistory[Len(conversationHistory) - 1].id = lastOp.s
    /\ conversationHistory[Len(conversationHistory)].id = lastOp.s

\* the windows the loop of the encoders goes through for the input
Windows == (Len(bytes) + chunkSize - 1) \div chunkSize

\* C23: what either encoder makes of a byte sequence, empty, shorter than
\* one window, one window or several windows long, decodes to the same
\* bytes and is the base64 of the whole input, four letters for every three
\* bytes begun, wherever the windows end; the two encoders and repeated
\* runs give the same string for the same bytes.
C23_EncoderRoundTrips ==
  encodedBy # "none" =>
    /\ atob(encoded) = bytes
    /\ encoded = btoa(FromCharCode(bytes))
    /\ Len(encoded) = 4 * ((Len(bytes) + 2) \div 3)
    /\ encoded = blobToBase64(bytes)
    /\ encoded = fileToBase64(bytes)

C23_Witness ==
  /\ encodedBy = "blobToBase64"
  /\ Windows >= 3
  /\ Len(bytes) % chunkSize # 0
  /\ bytes[1] # bytes[2]
  /\ atob(encoded) = bytes

\* C22: every request in flight to the action endpoint carries a transcript
\* or audio, and never both.
C22_NoEmptyRequest ==
  \A i \in 1..Len(wire) :
    /\ Filled(wire[i].transcript) \/ Filled(wire[i].audio_base64)
    /\ ~(Filled(wire[i].transcript) /\ Filled(wire[i].audio_base64))

\* the steps in which recorder.onstop of a session runs to its end
ProcessingEndOps == {"dispatchOk", "dispatchFailed", "encodeFailed", "rejected"}

\* C24: the start cue is played when a recording starts, the acknowledged
\* cue when a command completes successfully, the error cue on every
\* failure, and the step that ends the processing of a session plays
\* exactly one of acknowledged and error.
C24_CuesFollowTransitions ==
  /\ lastOp.op = "micGranted" => lastOp.cues = <<"startRecording">>
  /\ lastOp.op = "dispatchOk" => lastOp.cues = <<"gotIt">>
  /\ lastOp.op \in (StartErrorOps \cup ProcessingErrorOps) =>
       \E i \in 1..Len(lastOp.cues) : lastOp.cues[i] = "error"
  /\ lastOp.op \in ProcessingEndOps =>
       lastOp.cues \in {<<"gotIt">>, <<"error">>}

\* C25: while the dispatch of a session is in flight the state is
\* processing; it leaves processing only when the dispatch has settled.
C25_ProcessingUntilSettled ==
  InFlight # {} => mediaState = "processing"

\* C26 (as stated): when the encoding or the dispatch of a session fails,
\* the session is over, the state is error, the message is set and the
\* error cue was played.
C26_ProcessingFailureGoesToError ==
  lastOp.op \in ProcessingErrorOps =>
    /\ pc[lastOp.s] = "done"
    /\ mediaState = "error"
    /\ message = "Voice command failed."
    /\ lastOp.cues = <<"error">>

\* C26 (amended): when the encoding or the dispatch of a session fails, the
\* session is over, the message is set and the error cue was played, and the
\* state is idle, not error: the finally block of onstop sets idle after the
\* catch block.
C26_ProcessingFailureGoesToIdle ==
  lastOp.op \in ProcessingErrorOps =>
    /\ pc[lastOp.s] = "done"
    /\ mediaState = "idle"
    /\ message = "Voice command failed."
    /\ lastOp.cues = <<"error">>

C26_Witness ==
  /\ lastOp.op = "encodeFailed"
  /\ pc[lastOp.s] = "done"
  /\ mediaState = "idle"
  /\ message = "Voice command failed."
  /\ lastOp.cues = <<"error">>

\* C27 (as stated): a toggle request is never ignored while a dispatch is in
\* flight, so that the user can start a new recording while the previous
\* command is processing.
C27_ToggleNotRefusedInFlight ==
  lastOp.op = "toggleNoop" => InFlight = {}

\* C27 (amended): a toggle request made while the state is processing is
\* ignored: it starts no attempt, stops no recorder and changes nothing.
C27_ToggleIgnoredWhileProcessing ==
  [][(lastOp'.op \in ToggleOps /\ mediaState = "processing") =>
       /\ lastOp'.op = "toggleNoop"
       /\ UNCHANGED <<progVars, obsVars, viewVars, envVars>>]_vars

C27_Witness ==
  /\ lastOp.op = "toggleNoop"
  /\ mediaState = "processing"
  /\ InFlight # {}
  /\ pendingCount = 1
  /\ nextId < MaxSessions

\* the steps C28 allows to write to the store: a returned response being
\* interpreted (to its end, or to the exception it raises) and the two clears
StoreWriterOps == {"respond", "respondThrew", "clearConversation",
                   "clearHistory"}

\* C28: the conversation history, lastResponse, responseLog, the pipeline
\* filters and their version change only in a step that interprets a
\* returned response or in a clear; no other step writes to them.
C28_StoreWrittenOnlyByInterpreterOrClear ==
  [][<<conversationHistory, viewVars>>' # <<conversationHistory, viewVars>>
       => lastOp'.op \in StoreWriterOps]_vars

\* the role the turn at position i of a history of whole exchanges has
RoleAt(i) == IF i % 2 = 1 THEN "user" ELSE "assistant"

\* C29: in every state the history has even length and its turns are user,
\* assistant, user, assistant, ... from the first on; a response handled
\* with the history at its cap of 6 drops exactly the two turns of the oldest
\* exchange; the history gets shorter only in a clear, which empties it.
C29_WholeExchangesOnly ==
  /\ [](/\ Len(conversationHistory) % 2 = 0
        /\ \A i \in 1..Len(conversationHistory) :
             conversationHistory[i].role = RoleAt(i))
  /\ [][/\ (lastOp'.op = "respond" /\ Len(conversationHistory) = HistoryCap) =>
             /\ Len(conversationHistory') = HistoryCap
             /\ SubSeq(conversationHistory', 1, HistoryCap - 2) =
                  SubSeq(conversationHistory, 3, HistoryCap)
             /\ conversationHistory'[1].role = "user"
             /\ conversationHistory'[1].id = conversationHistory[3].id
        /\ lastOp'.op = "clearConversation" => conversationHistory' = <<>>
        /\ Len(conversationHistory') < Len(conversationHistory) =>
             /\ lastOp'.op = "clearConversation"
             /\ conversationHistory' = <<>>]_vars

C29_Witness ==
  /\ lastOp.op = "respond"
  /\ Len(conversationHistory) = HistoryCap
  /\ conversationHistory[1].role = "user"
  /\ conversationHistory[1].id > 1
  /\ conversationHistory[2].id = conversationHistory[1].id
  /\ conversationHistory[2].role = "assistant"

\* the attempts whose VAD interval is set, and those whose AudioContext is
\* open
Sampling == {s \in Sessions : timerLive[s]}
Analysing == {s \in Sessions : ctxOpen[s]}

\* C30: at most one VAD interval is set at any time, and when the state is
\* idle or error no VAD interval is set and no AudioContext is open.
C30_OneTimerNoneAtRest ==
  /\ Cardinality(Sampling) <= 1
  /\ mediaState \in {"idle", "error"} => (Sampling = {} /\ Analysing = {})
====
